---- MODULE Spec2Model ----
(***************************************************************************)
(* Model of the scraping orchestration of the Telegram parser backend:     *)
(* TelegramParserService (backend/app/services/telegram_parser.py), the    *)
(* store operations it calls (backend/app/crud/telegram.py) and the        *)
(* endpoints that start, cancel and validate a parse                       *)
(* (backend/app/api/endpoints/telegram.py, backend/app/schemas/telegram.py)*)
(* Beside the handlers: the bot-token pool, one service object's           *)
(* _connect/_disconnect, list_dialogs, and the bot-token service of        *)
(* backend/simple_run.py, each with a specification of its own.            *)
(*                                                                         *)
(* Granularity: the service runs on one asyncio event loop, so the code    *)
(* between two awaits is atomic.  Every action below is one such segment:  *)
(* it starts where an await returns (the network's answer is the action's  *)
(* input, drawn with \E) and runs to the next await or to the end of the   *)
(* handler.  cancel_parsing() and the _delayed_reset() timer are separate  *)
(* requests/tasks and interleave at the awaits.                            *)
(*                                                                         *)
(* phase_progress is a float in the code; the model keeps its integer part.*)
(***************************************************************************)
EXTENDS Integers, Sequences, FiniteSets, TLC

\* ---------------------------------------------------------------- bounds
MaxParses == 2        \* parse requests issued in one run
MaxMembers == 2       \* participants / messages one scan yields, and the
                      \* largest participants_count the network reports
MaxPosts == 2         \* posts a channel holds
MaxTimers == 2        \* _delayed_reset tasks pending at once
MaxFetchErrors == 1   \* failing participant fetches in one scan
OutageParses == 1     \* parse requests in a run with a failing network
ScanParses == 1       \* parse requests in a run that studies the scanners
MaxEnvLen == 3        \* characters in TELEGRAM_BOT_TOKENS
MaxCalls == 3         \* get_next_bot_token() calls in one run
MaxCredLen == 2       \* characters in a bot token given to the service
MaxDisconnects == 2   \* _disconnect() calls on one service object
ExitParses == 1       \* requests in a run that studies the ways out
LinkParses == 1       \* requests in a run that studies the link forms
MaxLegacyParses == 2  \* requests to the bot-token service in one run
OverlapParses == 2    \* requests in a run whose requests may overlap
OverlapItems == 1     \* participants, messages and posts an entity holds
                      \* in such a run

\* ------------------------------------------------------ program constants
PostLimitMax == 100       \* ChannelParseRequest.validate_post_limit: v > 100
DefaultCommentLimit == 100 \* GroupParseRequest.comment_limit default

\* ----------------------------------------------------------------- world
\* the requests that can be in flight together
Slots == {1, 2}
Users == {"u1", "u2"}
\* users owning a TelegramSession row that is active and has a session string
WithSession == {"u1"}
\* the accounts that write messages and comments
NetUsers == {1}
\* what the network knows: a broadcast channel, a supergroup, a user chat
Entities == {"chan", "grp", "usr"}
Names == Entities \cup {"nope"}
PostLimits == {0, 1, PostLimitMax, 150}

\* the account's own id, me.id
MeId == 9
\* str(entity.id)
EntityId(e) == CASE e = "chan" -> 1 [] e = "grp" -> 2 [] e = "usr" -> 3
\* isinstance(entity, Channel)
IsChannelType(e) == e \in {"chan", "grp"}
\* getattr(entity, 'broadcast', False)
IsBroadcast(e) == e = "chan"
\* entity.username
Username(e) == CASE e = "chan" -> <<"a">> [] e = "grp" -> <<"b">>
                 [] e = "usr" -> <<"c">>

\* ------------------------------------------------------------ link texts
\* A text is a sequence of one-character strings.
Digits == {"1", "2", "3"}
DigitValue(c) == CASE c = "1" -> 1 [] c = "2" -> 2 [] c = "3" -> 3

\* where s first occurs in t, or 0
Find(t, s) ==
    LET at == {i \in 1..(Len(t) - Len(s) + 1) : SubSeq(t, i, i + Len(s) - 1) = s}
    IN IF at = {} THEN 0 ELSE CHOOSE i \in at : \A j \in at : i <= j

\* t.split(s)
RECURSIVE Split(_, _)
Split(t, s) ==
    LET i == Find(t, s)
    IN IF i = 0 THEN <<t>>
       ELSE <<SubSeq(t, 1, i - 1)>> \o Split(SubSeq(t, i + Len(s), Len(t)), s)

TMe == <<"t", ".", "m", "e", "/">>
Https == <<"h", "t", "t", "p", "s", ":", "/", "/">>

\* _extract_group_id that keeps the query string
_extract_group_id_with_query(t) ==
    IF Find(t, TMe) # 0
    THEN Split(Split(t, TMe)[2], <<"/">>)[1]
    ELSE IF t # <<>> /\ Head(t) = "@" THEN Tail(t)
    ELSE t

_extract_group_id(t) ==
    IF Find(t, TMe) # 0
    THEN Split(Split(Split(t, TMe)[2], <<"/">>)[1], <<"?">>)[1]
    ELSE IF t # <<>> /\ Head(t) = "@" THEN Tail(t)
    ELSE t

\* t.lstrip('-')
RECURSIVE LStripDash(_)
LStripDash(t) == IF t # <<>> /\ Head(t) = "-" THEN LStripDash(Tail(t)) ELSE t

\* t.isdigit()
IsDigit(t) == t # <<>> /\ \A i \in 1..Len(t) : t[i] \in Digits

\* int(t) of a text of digits
RECURSIVE DigitsValue(_)
DigitsValue(t) ==
    IF t = <<>> THEN 0
    ELSE 10 * DigitsValue(SubSeq(t, 1, Len(t) - 1)) + DigitValue(t[Len(t)])

\* what the handlers pass to client.get_entity (lines 406-414, 688-695):
\* int(link) for a numeric link, which raises on a second sign, and the
\* extracted username otherwise
LookupKey(t) ==
    IF IsDigit(LStripDash(t))
    THEN IF IsDigit(t) THEN [kind |-> "int", n |-> DigitsValue(t)]
         ELSE IF IsDigit(Tail(t)) THEN [kind |-> "int", n |-> 0 - DigitsValue(Tail(t))]
         ELSE [kind |-> "ValueError"]
    ELSE [kind |-> "str", s |-> _extract_group_id(t)]

\* the entity the network knows under a key: a username, or an id with or
\* without its sign
Directory(k) ==
    LET hits == IF k.kind = "int"
                THEN {e \in Entities : EntityId(e) = k.n \/ EntityId(e) = 0 - k.n}
                ELSE IF k.kind = "str" THEN {e \in Entities : Username(e) = k.s}
                ELSE {}
    IN IF hits = {} THEN "nope" ELSE CHOOSE e \in hits : TRUE

\* a link as typed: its text, whether the handler takes it for a numeric id
\* ("num") or a username ("bare"), and the entity it denotes
Typed(t) ==
    [form |-> IF LookupKey(t).kind = "str" THEN "bare" ELSE "num",
     name |-> Directory(LookupKey(t)), text |-> t]

\* the channel is typed by id and by username, the others by id
Links == {Typed(t) : t \in {<<"1">>, <<"a">>, <<"2">>, <<"3">>, <<"z">>}}

\* the identifiers of an entity: its t.me link with or without a scheme, a
\* path and a query string, @username, the bare username
NameForms(e) ==
    LET u == Username(e)
    IN {TMe \o u, Https \o TMe \o u, TMe \o u \o <<"/", "1">>,
        Https \o TMe \o u \o <<"?", "x">>,
        Https \o TMe \o u \o <<"/", "1", "?", "x">>, <<"@">> \o u, u}
\* and its numeric id with and without the sign
IdForms(e) ==
    LET i == CHOOSE c \in Digits : DigitValue(c) = EntityId(e)
    IN {<<i>>, <<"-", i>>}
LinkForms(e) == NameForms(e) \cup IdForms(e)

\* ------------------------------------------------------- ParsingProgress
DefaultProgress ==
    [total_members |-> 0, current_members |-> 0,
     current_phase |-> "initializing", phase_progress |-> 0,
     status_message |-> "Starting...", is_cancelled |-> FALSE,
     current_group_id |-> 0]

\* The tracker file is <<>> (no file) or <<progress>>.
\* get_progress() or ParsingProgress()
OrDefault(f) == IF f = <<>> THEN DefaultProgress ELSE f[1]

\* progress and progress.is_cancelled
Cancelled(f) == f # <<>> /\ f[1].is_cancelled

\* progress and progress.is_cancelled and progress.current_group_id
CancelledWithGroup(f) == Cancelled(f) /\ f[1].current_group_id # 0

cancel_parsing(f) ==
    << [OrDefault(f) EXCEPT !.is_cancelled = TRUE,
                            !.current_phase = "cancelled",
                            !.status_message = "Parsing cancelled by user"] >>

\* _update_progress starting from a fresh ParsingProgress() every time
_update_progress_fresh(f, phase, current, total, message) ==
    LET p == DefaultProgress IN
    << [p EXCEPT !.current_phase = phase,
                 !.total_members = IF total > 0 THEN total ELSE @,
                 !.current_members = IF current >= 0 THEN current ELSE @,
                 !.status_message = IF message # "" THEN message ELSE @,
                 !.phase_progress =
                     IF total > 0 THEN (current * 100) \div total ELSE @] >>

_update_progress(f, phase, current, total, message) ==
    LET p == OrDefault(f) IN
    << [p EXCEPT !.current_phase = phase,
                 !.total_members = IF total > 0 THEN total ELSE @,
                 !.current_members = IF current >= 0 THEN current ELSE @,
                 !.status_message = IF message # "" THEN message ELSE @,
                 !.phase_progress =
                     IF total > 0 THEN (current * 100) \div total ELSE @] >>

\* progress.current_group_id = group.id; _save_progress(progress)
SaveGroupId(f, id) == << [OrDefault(f) EXCEPT !.current_group_id = id] >>

\* _reset_progress(): the file it leaves, and whether it started a timer
ResetDefers(f) == f # <<>> /\ f[1].current_phase = "cancelled"
_reset_progress(f) == IF ResetDefers(f) THEN f ELSE <<>>

\* _delayed_reset() after its sleep: os.remove
_delayed_reset(f) == <<>>

\* ----------------------------------------------------------------- store
create_group(G, id, user, gid, isch) ==
    G \cup {[id |-> id, user_id |-> user, group_id |-> gid, is_channel |-> isch]}

delete_group_members(M, id) == SelectSeq(M, LAMBDA r : r.group_id # id)

\* delete_group's effect on the parsed_groups table
delete_group(G, id) == {g \in G : g.id # id}

get_group_by_id(G, id) == {g \in G : g.id = id}

\* rows are <<group id, user id>> requests, inserted in order
create_members_bulk(M, id, uids) ==
    M \o [i \in 1..Len(uids) |-> [group_id |-> id, user_id |-> uids[i]]]

\* ------------------------------------------------------ request validation
\* validate_post_limit with its lower test written  v < 0
validate_post_limit_loose(v) == ~(v < 0) /\ ~(v > PostLimitMax)

validate_post_limit(v) == ~(v <= 0) /\ ~(v > PostLimitMax)

\* ----------------------------------------------------------------- state
VARIABLES
    file,       \* the tracker file /tmp/telegram_parser_progress.json
    groups,     \* parsed_groups rows
    members,    \* group_members rows
    nextId,     \* the parsed_groups id sequence
    timers,     \* _delayed_reset tasks sleeping
    started,    \* parse requests issued so far
    world,      \* the name of the deployment the run is in (fixed)
    pool,       \* TELEGRAM_BOT_TOKENS, _bot_tokens, _current_token_index
    conn,       \* one service object's credentials and its client
    legacy,     \* the bot-token service: requests begun, and per request
                \* slot the locals of its parse_group
    ops         \* per request slot: the locals of the running handler

\* the scraping handlers' state, and the state of the parts beside them
main == <<file, groups, members, nextId, timers, started, world, ops>>
aside == <<pool, conn, legacy>>
vars == <<main, aside>>

\* ----------------------------------------------------------- deployments
\* The deployment the other properties are studied in: one request at a
\* time, every user and link, one account writing messages.
OneAtATime ==
    [slots |-> {1}, overlap |-> FALSE, users |-> Users, links |-> Links,
     authors |-> NetUsers, parses |-> MaxParses,
     members |-> MaxMembers, posts |-> MaxPosts, outage |-> FALSE]

\* The deployment the scanners are studied in: a user with a session, links
\* that resolve, and two accounts writing messages and comments.
ManyAuthors == {1, 2}
Scanning ==
    [slots |-> {1}, overlap |-> FALSE, users |-> WithSession,
     links |-> {l \in Links : l.form = "num"}, authors |-> ManyAuthors,
     parses |-> ScanParses,
     members |-> MaxMembers, posts |-> MaxPosts, outage |-> FALSE]

\* The deployment the ways out are studied in: every user, links that
\* resolve, one request in the run.
Exits ==
    [slots |-> {1}, overlap |-> FALSE, users |-> Users,
     links |-> {l \in Links : l.form = "num"}, authors |-> NetUsers,
     parses |-> ExitParses,
     members |-> MaxMembers, posts |-> MaxPosts, outage |-> FALSE]

\* The deployment the link forms are studied in: a user with a session and
\* every identifier of every entity.
Linking ==
    [slots |-> {1}, overlap |-> FALSE, users |-> WithSession,
     links |-> {Typed(t) : t \in UNION {LinkForms(e) : e \in Entities}},
     authors |-> NetUsers, parses |-> LinkParses,
     members |-> MaxMembers, posts |-> MaxPosts, outage |-> FALSE]

\* The deployment as the endpoints leave it: nothing keeps a client from
\* posting a parse request while another is being served.
Overlapping ==
    [slots |-> Slots, overlap |-> TRUE, users |-> WithSession,
     links |-> {Typed(<<"1">>), Typed(<<"3">>)}, authors |-> NetUsers,
     parses |-> OverlapParses,
     members |-> OverlapItems, posts |-> OverlapItems,
     outage |-> FALSE]

\* The deployment a failing network is studied in: the number of times
\* participant_iter.__anext__() raises in one scan is not limited.
Outage ==
    [slots |-> {1}, overlap |-> FALSE, users |-> Users,
     links |-> {l \in Links : l.form = "num"}, authors |-> NetUsers,
     parses |-> OutageParses,
     members |-> MaxMembers, posts |-> MaxPosts, outage |-> TRUE]

\* the deployment a run is in, by its name
Deployment(n) ==
    CASE n = "OneAtATime" -> OneAtATime [] n = "Scanning" -> Scanning
      [] n = "Exits" -> Exits [] n = "Linking" -> Linking
      [] n = "Overlapping" -> Overlapping [] n = "Outage" -> Outage

IdleOp ==
    [kind |-> "none", pc |-> "idle", user |-> "u1",
     link |-> [form |-> "bare", name |-> "nope", text |-> <<"z">>],
     scan_comments |-> FALSE, limit |-> 0,
     ent |-> "", group |-> 0, client |-> "none", lp |-> <<>>,
     total |-> 0, acc |-> <<>>, posts |-> 0, idx |-> 0, errs |-> 0,
     refetch |-> 0,
     wrote |-> {}, trail |-> <<>>, last |-> "", lastTotal |-> 0,
     exc |-> "", result |-> "none",
     created |-> 0, scanned |-> FALSE, cancelMid |-> "no",
     sawCancel |-> FALSE, scanErr |-> FALSE, nomatch |-> FALSE,
     okc |-> {}, skipped |-> FALSE, seen |-> {}, listed |-> {}]


\* ------------------------------------------------------- the token pool
\* Text is a sequence of one-character strings.
Chars == {"a", "b", ",", " "}
RECURSIVE Texts(_)
Texts(n) ==
    IF n = 0 THEN {<<>>}
    ELSE LET shorter == Texts(n - 1)
         IN shorter \cup {Append(t, c) : t \in {x \in shorter : Len(x) = n - 1},
                                          c \in Chars}

\* str.split(","): the pieces between the commas, empty ones included
RECURSIVE SplitComma(_, _)
SplitComma(t, piece) ==
    IF t = <<>> THEN <<piece>>
    ELSE IF Head(t) = "," THEN <<piece>> \o SplitComma(Tail(t), <<>>)
    ELSE SplitComma(Tail(t), Append(piece, Head(t)))

\* str.strip() of blanks
RECURSIVE LStrip(_)
LStrip(t) == IF t # <<>> /\ Head(t) = " " THEN LStrip(Tail(t)) ELSE t
RECURSIVE RStrip(_)
RStrip(t) ==
    IF t # <<>> /\ t[Len(t)] = " " THEN RStrip(SubSeq(t, 1, Len(t) - 1)) ELSE t
Strip(t) == RStrip(LStrip(t))

\* the class attributes before any call, with the environment's value
NewPool(env) ==
    [env |-> env, tokens |-> <<>>, index |-> 0,
     calls |-> 0, loads |-> 0, conf |-> <<>>, ret |-> <<>>, last |-> "none"]

\* get_bot_tokens(): <<the class attributes after, the list or "raise">>
get_bot_tokens(pl) ==
    IF pl.tokens = <<>>
    THEN IF pl.env = <<>> THEN [pool |-> pl, out |-> "raise"]
         ELSE LET pieces == SplitComma(pl.env, <<>>)
                  lst == [i \in 1..Len(pieces) |-> Strip(pieces[i])]
              IN [pool |-> [pl EXCEPT !.tokens = <<lst>>, !.loads = @ + 1,
                                      !.conf = IF pl.loads = 0 THEN lst ELSE @],
                  out |-> "list"]
    ELSE [pool |-> pl, out |-> "list"]

\* _current_token_index moved on without the wrap
NextIndexNoWrap(i, n) == i + 1

\* (cls._current_token_index + 1) % len(tokens)
NextIndex(i, n) == (i + 1) % n

\* get_next_bot_token(): the class attributes after the call
get_next_bot_token(pl) ==
    LET g == get_bot_tokens(pl) IN
    IF g.out = "raise" \/ g.pool.tokens[1] = <<>>
    THEN [g.pool EXCEPT !.last = "raised"]
    ELSE LET tokens == g.pool.tokens[1]
         IN [g.pool EXCEPT !.ret = <<tokens[g.pool.index + 1]>>,
                           !.index = NextIndex(@, Len(tokens)),
                           !.calls = @ + 1, !.last = "returned"]

\* ---------------------------------------------- one service's connection
\* An Optional[str] is <<>> (None) or <<text>>.
\* Python's truth value of an Optional[str]
Truthy(v) == v # <<>> /\ v[1] # <<>>

RECURSIVE TextsOver(_, _)
TextsOver(cs, n) ==
    IF n = 0 THEN {<<>>}
    ELSE LET shorter == TextsOver(cs, n - 1)
         IN shorter \cup {Append(t, c) : t \in {x \in shorter : Len(x) = n - 1},
                                          c \in cs}

\* the session strings and bot tokens a service object is built with
SessionStrings == {<<>>, <<<<>>>>, <<<<"s">>>>, <<<<"t">>>>}
BotTokens == {<<>>} \cup {<<t>> : t \in TextsOver({"1", ":"}, MaxCredLen)}

\* text.split(c)[0]
RECURSIVE Before(_, _)
Before(t, c) ==
    IF t = <<>> \/ Head(t) = c THEN <<>>
    ELSE <<Head(t)>> \o Before(Tail(t), c)

\* __init__: self.client = None
NewConn(ss, bt) ==
    [session_string |-> ss, bot_token |-> bt, client |-> <<>>,
     link |-> "unopened", raised |-> "", connects |-> 0, disconnects |-> 0,
     closes |-> 0, pc |-> "idle", result |-> "none"]

\* TelegramClient(session, ...) and what start() was given
StringSessionClient(c) ==
    [session |-> [kind |-> "StringSession", text |-> c.session_string[1]],
     start_token |-> <<>>]
BotSessionClient(c) ==
    [session |-> [kind |-> "name",
                  text |-> <<"bot_session_">> \o Before(c.bot_token[1], ":")],
     start_token |-> c.bot_token]

\* _connect with the two tests in the other order
_connect_bot_first(c, ok) ==
    LET opened == [c EXCEPT !.link = IF ok THEN "connected" ELSE @,
                             !.raised = IF ok THEN "" ELSE "start failed",
                             !.connects = @ + 1]
    IN IF Truthy(c.bot_token)
       THEN [opened EXCEPT !.client = <<BotSessionClient(c)>>]
       ELSE IF Truthy(c.session_string)
       THEN [opened EXCEPT !.client = <<StringSessionClient(c)>>]
       ELSE [c EXCEPT !.raised = "ValueError", !.connects = @ + 1]

\* _connect(); ok is whether client.start() returned
_connect(c, ok) ==
    LET opened == [c EXCEPT !.link = IF ok THEN "connected" ELSE @,
                             !.raised = IF ok THEN "" ELSE "start failed",
                             !.connects = @ + 1]
    IN IF Truthy(c.session_string)
       THEN [opened EXCEPT !.client = <<StringSessionClient(c)>>]
       ELSE IF Truthy(c.bot_token)
       THEN [opened EXCEPT !.client = <<BotSessionClient(c)>>]
       ELSE [c EXCEPT !.raised = "ValueError", !.connects = @ + 1]

\* _disconnect() that leaves the client as it is
_disconnect_nothing(c) == [c EXCEPT !.disconnects = @ + 1]

\* _disconnect(); client.disconnect() closes the link if there is one
_disconnect(c) ==
    LET called == [c EXCEPT !.disconnects = @ + 1]
    IN IF c.client # <<>>
       THEN [called EXCEPT !.closes = @ + 1,
                           !.link = IF @ = "connected" THEN "disconnected" ELSE @]
       ELSE called

\* --------------------------------------------- the bot-token service
IdleLegacy ==
    [pc |-> "idle", bot_token |-> <<>>, n |-> 0, attempts |-> 0,
     used |-> <<>>, last_error |-> [kind |-> "none", seconds |-> 0],
     result |-> [status |-> 0, seconds |-> 0]]
NewLegacy == [begun |-> 0, ops |-> [p \in Slots |-> IdleLegacy]]

Fresh(w) ==
    /\ world = w
    /\ pool = NewPool(<<>>)
    /\ conn = NewConn(<<>>, <<>>)
    /\ legacy = NewLegacy
    /\ file = <<>>
    /\ groups = {}
    /\ members = <<>>
    /\ nextId = 1
    /\ timers = 0
    /\ started = 0
    /\ ops = [p \in Slots |-> IdleOp]

Init == Fresh("OneAtATime")


Running(p) == ops[p].pc \notin {"idle", "done"}

\* -------------------------------------------------- the handler's writes
(* A handler's tracker writes are chained inside one atomic segment.  T is *)
(* the tracker as the segment sees it: the file, the phases this operation *)
(* has written so far, the last of them, the total passed to the most      *)
(* recent _update_progress call, and the phases in the order of writing    *)
(* (a phase written again right after itself counted once; the order is    *)
(* kept while the handler runs, up to its first "error" or "cancelled").   *)
Ctx(p) == [f |-> file, w |-> ops[p].wrote, l |-> ops[p].last,
           t |-> ops[p].lastTotal, tr |-> ops[p].trail]

Upd(T, phase, current, total, message) ==
    [f |-> _update_progress(T.f, phase, current, total, message),
     w |-> T.w \cup {phase}, l |-> phase, t |-> total,
     tr |-> IF T.l = phase \/ T.w \cap {"error", "cancelled"} # {}
            THEN T.tr ELSE Append(T.tr, phase)]

Commit(p, T, G, M, o) ==
    /\ file' = T.f
    /\ groups' = G
    /\ members' = M
    /\ ops' = [ops EXCEPT ![p] =
                 [o EXCEPT !.wrote = T.w, !.last = T.l,
                           !.trail = IF o.pc = "done" THEN <<>> ELSE T.tr,
                           !.lastTotal = IF o.pc = "done" THEN 0 ELSE T.t]]

\* What stays of a handler's locals once it has ended.
Finish(o) ==
    [IdleOp EXCEPT !.kind = o.kind, !.pc = "done", !.user = o.user,
                   !.limit = o.limit, !.ent = o.ent, !.client = o.client,
                   !.exc = o.exc,
                   !.result = o.result, !.created = o.created,
                   !.scanned = o.scanned, !.cancelMid = o.cancelMid,
                   !.sawCancel = o.sawCancel, !.scanErr = o.scanErr,
                   !.nomatch = o.nomatch, !.okc = o.okc,
                   !.skipped = o.skipped, !.seen = o.seen]

CancelMsg == "Parsing cancelled by user"

\* The finally blocks read self.client and nothing else of the handler's
\* locals: the request's link and mode and the scan's working values are
\* dead from there on.
Leave(o) ==
    [o EXCEPT !.link = IdleOp.link, !.scan_comments = FALSE, !.group = 0,
              !.lp = <<>>, !.total = 0, !.acc = <<>>, !.posts = 0,
              !.idx = 0, !.errs = 0, !.refetch = 0]

\* ------------------------------------------------- parse_group: handlers
\* finally: await self._disconnect()  (suspends only when a client exists)
GroupFinally(o) ==
    IF o.client = "none" THEN Finish(o)
    ELSE [Leave(o) EXCEPT !.pc = "disconnect"]

\* parse_group's except block without its _update_progress calls
GroupExceptSilent(p, T, G, M, o, e) ==
    LET del == Cancelled(T.f) /\ o.group # 0
        G1 == IF del THEN delete_group(G, o.group) ELSE G
        M1 == IF del THEN delete_group_members(M, o.group) ELSE M
    IN Commit(p, T, G1, M1,
              GroupFinally([o EXCEPT !.exc = e, !.result = "error"]))

\* except Exception as e (lines 586-609), then finally
GroupExcept(p, T, G, M, o, e) ==
    LET del == Cancelled(T.f) /\ o.group # 0
        G1 == IF del THEN delete_group(G, o.group) ELSE G
        M1 == IF del THEN delete_group_members(M, o.group) ELSE M
        T1 == IF Cancelled(T.f)
              THEN Upd(T, "cancelled", 0, 0, CancelMsg)
              ELSE Upd(T, "error", 0, 0, "Error parsing chat")
    IN Commit(p, T1, G1, M1,
              GroupFinally([o EXCEPT !.exc = e, !.result = "error"]))

\* the inner except Exception as e (lines 565-573), which re-raises
GroupScanExcept(p, T, G, M, o, e) ==
    IF Cancelled(T.f)
    THEN LET del == o.group # 0
             G1 == IF del THEN delete_group(G, o.group) ELSE G
             M1 == IF del THEN delete_group_members(M, o.group) ELSE M
         IN GroupExcept(p, T, G1, M1, o, CancelMsg)
    ELSE GroupExcept(p, Upd(T, "error", 0, 0, "Error processing members"),
                     G, M, o, e)

\* ----------------------------------------------- parse_channel: handlers
\* finally (lines 847-856) up to its first await
ChannelFinally(p, T, G, M, o) ==
    LET del == CancelledWithGroup(o.lp)
        id == IF del THEN o.lp[1].current_group_id ELSE 0
        G1 == IF del THEN delete_group(G, id) ELSE G
        M1 == IF del THEN delete_group_members(M, id) ELSE M
    IN Commit(p, T, G1, M1,
              [Leave(o) EXCEPT !.pc = IF o.client = "none" THEN "sleep"
                                      ELSE "disconnect"])

\* except Exception as e (lines 837-846), which re-raises into finally
ChannelExcept(p, T, G, M, o, e) ==
    LET del == CancelledWithGroup(T.f)
        id == IF del THEN T.f[1].current_group_id ELSE 0
        G1 == IF del THEN delete_group(G, id) ELSE G
        M1 == IF del THEN delete_group_members(M, id) ELSE M
        lp == IF del THEN << [T.f[1] EXCEPT !.current_group_id = 0] >>
              ELSE T.f
    IN ChannelFinally(p, Upd(T, "error", 0, 0, "Error parsing channel"),
                      G1, M1,
                      [o EXCEPT !.exc = e, !.result = "error", !.lp = lp])

\* lines 827-835: the probe after the inner try, and the return
ChannelTail(p, T, G, M, o) ==
    LET del == CancelledWithGroup(T.f)
        id == IF del THEN T.f[1].current_group_id ELSE 0
        G1 == IF del THEN delete_group(G, id) ELSE G
        M1 == IF del THEN delete_group_members(M, id) ELSE M
        lp == IF del THEN << [T.f[1] EXCEPT !.current_group_id = 0] >>
              ELSE T.f
        res == IF get_group_by_id(G1, o.group) = {} THEN "returned_none"
               ELSE "returned"
    IN ChannelFinally(p, T, G1, M1, [o EXCEPT !.result = res, !.lp = lp])

\* the inner except Exception as e (lines 817-825)
ChannelScanExcept(p, T, G, M, o, e) ==
    IF CancelledWithGroup(T.f)
    THEN LET id == T.f[1].current_group_id
         IN ChannelExcept(p, T, delete_group(G, id),
                          delete_group_members(M, id), o, CancelMsg)
    ELSE ChannelTail(p, Upd(T, "error", 0, 0,
                            "Error processing posts and comments"),
                     G, M, o)

Except(p, T, G, M, o, e) ==
    IF o.kind = "group" THEN GroupExcept(p, T, G, M, o, e)
    ELSE ChannelExcept(p, T, G, M, o, e)

\* -------------------------------------------------------- starting a parse
\* The clients of one deployment run one parse at a time: a request is
\* issued when no handler is running.
CanStart(p) ==
    /\ ops[p].pc \in {"idle", "done"}
    /\ p \in Deployment(world).slots
    /\ Deployment(world).overlap \/ \A q \in Slots : ~Running(q)
    /\ started < Deployment(world).parses
    /\ ResetDefers(file) => timers < MaxTimers

\* the first segment without the test of the session query's result
BeginSessionless(p, o, initMsg) ==
    LET T1 == Upd([f |-> _reset_progress(file), w |-> {}, l |-> "", t |-> 0,
                   tr |-> <<>>],
                  "initialization", 0, 0, initMsg)
    IN /\ timers' = IF ResetDefers(file) THEN timers + 1 ELSE timers
       /\ started' = started + 1
       /\ UNCHANGED <<world, aside>>
       /\ UNCHANGED nextId
       /\ Commit(p, Upd(T1, "connecting", 0, 0, "Connecting to Telegram..."),
                 groups, members,
                 [o EXCEPT !.pc = "connect", !.client = "starting"])

\* the first segment of both handlers: reset, "initialization", the session
\* query, "connecting", up to await self._connect()
Begin(p, o, initMsg) ==
    LET T1 == Upd([f |-> _reset_progress(file), w |-> {}, l |-> "", t |-> 0,
                   tr |-> <<>>],
                  "initialization", 0, 0, initMsg)
    IN /\ timers' = IF ResetDefers(file) THEN timers + 1 ELSE timers
       /\ started' = started + 1
       /\ UNCHANGED <<world, aside>>
       /\ UNCHANGED nextId
       /\ IF o.user \notin WithSession
          THEN Except(p, T1, groups, members, o,
                      "No active Telegram session found")
          ELSE Commit(p, Upd(T1, "connecting", 0, 0,
                             "Connecting to Telegram..."),
                      groups, members,
                      [o EXCEPT !.pc = "connect", !.client = "starting"])

\* POST /parse-group/ -> TelegramParserService.parse_group
ParseGroupStart(p) ==
    /\ CanStart(p)
    /\ \E u \in Deployment(world).users, l \in Deployment(world).links, sc \in BOOLEAN :
         Begin(p, [IdleOp EXCEPT !.kind = "group", !.user = u, !.link = l,
                                 !.scan_comments = sc,
                                 !.limit = DefaultCommentLimit],
               "Initializing chat parsing...")

\* POST /parse-channel/ with a post_limit the schema accepts
ParseChannelStart(p) ==
    /\ CanStart(p)
    /\ \E u \in Deployment(world).users, l \in Deployment(world).links, n \in PostLimits :
         /\ validate_post_limit(n)
         /\ Begin(p, [IdleOp EXCEPT !.kind = "channel", !.user = u,
                                    !.link = l, !.limit = n],
                  "Initializing channel parsing...")

\* POST /parse-channel/ with a post_limit the schema rejects: the request
\* fails validation and the endpoint's body never runs
ParseChannelReject(p) ==
    /\ ops[p].pc \in {"idle", "done"}
    /\ p \in Deployment(world).slots
    /\ Deployment(world).overlap \/ \A q \in Slots : ~Running(q)
    /\ started < Deployment(world).parses
    /\ \E u \in Deployment(world).users, n \in PostLimits :
         /\ ~validate_post_limit(n)
         /\ ops' = [ops EXCEPT ![p] =
                      [IdleOp EXCEPT !.kind = "channel", !.pc = "done",
                                     !.user = u, !.limit = n,
                                     !.result = "rejected"]]
    /\ started' = started + 1
    /\ UNCHANGED <<world, aside>>
    /\ UNCHANGED <<file, groups, members, nextId, timers>>

\* ------------------------------------------- cancel request and the timer
\* Whether a cancel arriving now falls mid-scan, after N of M items with
\* 0 < N < M.  A member or message scan learns M only when the iteration
\* ends: "pending" becomes "yes" when one more item arrives and "no" when
\* the iteration ends.  A channel scan waiting for post idx of `posts` has
\* finished idx - 1 posts.
MidScan(o) ==
    IF o.pc \in {"next", "msgs"} /\ o.idx > 0 /\ o.cancelMid = "no" THEN "pending"
    ELSE IF o.pc = "comments" /\ o.idx > 1 THEN "yes"
    ELSE o.cancelMid

\* POST /parse-group/cancel, /parse-channel/cancel
Cancel ==
    /\ file' = cancel_parsing(file)
    /\ file' # file
    /\ ops' = [p \in Slots |-> [ops[p] EXCEPT !.cancelMid = MidScan(ops[p])]]
    /\ UNCHANGED <<groups, members, nextId, timers, started, world, aside>>

\* a _delayed_reset task wakes up
TimerFires ==
    /\ timers > 0
    /\ timers' = timers - 1
    /\ file' = _delayed_reset(file)
    /\ UNCHANGED <<groups, members, nextId, started, world, aside, ops>>

\* ----------------------------------------------------- shared first steps
Saw(o) == [o EXCEPT !.sawCancel = TRUE]
ScanErr(o) == [o EXCEPT !.scanErr = TRUE]

\* Keeping the ids of a dict in insertion order: users[id] = ... only adds
\* an id that is not yet a key.
\* users[id] = ... kept as a list that takes every id it is given
AddAlways(acc, uid) == Append(acc, uid)

AddUnique(acc, uid) ==
    IF \E i \in 1..Len(acc) : acc[i] = uid THEN acc ELSE Append(acc, uid)

RECURSIVE AddAll(_, _)
AddAll(acc, uids) ==
    IF uids = {} THEN acc
    ELSE LET u == CHOOSE x \in uids : \A y \in uids : x <= y
         IN AddAll(AddUnique(acc, u), uids \ {u})

\* await self._connect() returns or raises; then the probe and "validation"
ConnectReturns(p) ==
    /\ ops[p].pc = "connect"
    /\ \E ok \in BOOLEAN :
         LET o == [ops[p] EXCEPT !.client = IF ok THEN "open" ELSE "broken"]
             T == Ctx(p)
         IN IF ~ok THEN Except(p, T, groups, members, o, "connect failed")
            ELSE IF Cancelled(T.f)
            THEN Except(p, T, groups, members, o, CancelMsg)
            ELSE Commit(p, Upd(T, "validation", 0, 0, "Validating..."),
                        groups, members, [o EXCEPT !.pc = "entity"])
    /\ UNCHANGED <<nextId, timers, started, world, aside>>

\* -------------------------------------------- parse_group: create and scan
\* the tail of parse_group announcing "saving" before "processing"
AfterScanSavingFirst(p, T, o, mems) ==
    IF Cancelled(T.f)
    THEN GroupScanExcept(p, T, groups, members, Saw(o), CancelMsg)
    ELSE LET n == Len(mems)
             T1 == IF n > 0
                   THEN Upd(T, "saving", 0, 0, "Saving member data to database...")
                   ELSE T
             T2 == Upd(T1, "processing", 0, 0, "Processing member data...")
             T3 == IF n > 0
                   THEN Upd(T2, "processing", n, n, "Processing member data i/n")
                   ELSE T2
             M1 == IF n > 0 THEN create_members_bulk(members, o.group, mems)
                   ELSE members
             T4 == Upd(T3, "completed", 0, 0, "Chat parsing completed successfully")
         IN Commit(p, T4, groups, M1,
                   GroupFinally([o EXCEPT !.result = "returned"]))

\* lines 521-584: after the scanner returned `mems`
AfterScan(p, T, o, mems) ==
    IF Cancelled(T.f)
    THEN GroupScanExcept(p, T, groups, members, Saw(o), CancelMsg)
    ELSE LET n == Len(mems)
             T1 == Upd(T, "processing", 0, 0, "Processing member data...")
             \* the loop's updates overwrite each other: the last one stays
             T2 == IF n > 0
                   THEN Upd(T1, "processing", n, n, "Processing member data i/n")
                   ELSE T1
             T3 == IF n > 0
                   THEN Upd(T2, "saving", 0, 0, "Saving member data to database...")
                   ELSE T2
             M1 == IF n > 0 THEN create_members_bulk(members, o.group, mems)
                   ELSE members
             T4 == Upd(T3, "completed", 0, 0, "Chat parsing completed successfully")
         IN Commit(p, T4, groups, M1,
                   GroupFinally([o EXCEPT !.result = "returned"]))

\* lines 467-519: the probe, "database", create_group, the tracker's group
\* id, "scanning" and the scanner up to its first await.  `bound` is whether
\* is_channel was assigned (it is not when GetFullChannelRequest failed).
GroupCreateSeg(p, T, o, bound) ==
    IF Cancelled(T.f)
    THEN Except(p, T, groups, members, o, CancelMsg) /\ UNCHANGED nextId
    ELSE LET T1 == Upd(T, "database", 0, 0, "Creating chat record...") IN
         IF ~bound
         THEN Except(p, T1, groups, members, o, "is_channel referenced before assignment")
              /\ UNCHANGED nextId
         ELSE LET G1 == create_group(groups, nextId, o.user, EntityId(o.ent),
                                     IsBroadcast(o.ent))
                  T2 == [T1 EXCEPT !.f = SaveGroupId(T1.f, nextId)]
                  o1 == [o EXCEPT !.group = nextId, !.created = nextId,
                                  !.idx = 0, !.acc = <<>>]
              IN /\ nextId' = nextId + 1
                 /\ IF o.scan_comments
                    THEN Commit(p, Upd(Upd(T2, "scanning", 0, 0, "Starting message scanning..."),
                                       "comments", 0, 0, "Starting comment analysis..."),
                                G1, members, [o1 EXCEPT !.pc = "msgs"])
                    ELSE LET T3 == Upd(T2, "scanning", 0, 0, "Starting member scanning...")
                         IN IF IsChannelType(o.ent)
                            THEN Commit(p, Upd(T3, "admins", 0, 0, "Getting admin list..."),
                                        G1, members, [o1 EXCEPT !.pc = "admins"])
                            ELSE Commit(p, T3, G1, members,
                                        [o1 EXCEPT !.pc = "me",
                                                   !.acc = <<EntityId(o.ent)>>,
                                                   !.seen = {EntityId(o.ent)}])

\* ----------------------------------------- parse_channel: create and scan
\* lines 792-816, then the tail: "saving", the commenter loop with its
\* probe, the bulk insert, "completed"
ChannelSave(p, T, o, acc) ==
    LET T1 == Upd(T, "saving", 0, 0, "Saving unique commenters...") IN
    IF acc # <<>> /\ Cancelled(T1.f)
    THEN ChannelScanExcept(p, T1, groups, members, Saw(o), CancelMsg)
    ELSE LET M1 == IF acc # <<>>
                   THEN create_members_bulk(members, o.group, acc)
                   ELSE members
         IN ChannelTail(p, Upd(T1, "completed", 0, 0,
                               "Channel parsing completed successfully"),
                        groups, M1, o)

\* lines 738-771
ChannelCreateSeg(p, T, o) ==
    IF Cancelled(T.f)
    THEN Except(p, T, groups, members, o, CancelMsg) /\ UNCHANGED nextId
    ELSE LET T1 == Upd(T, "database", 0, 0, "Creating channel record...")
             G1 == create_group(groups, nextId, o.user, EntityId(o.ent), TRUE)
             T2 == [T1 EXCEPT !.f = SaveGroupId(T1.f, nextId)]
             T3 == Upd(T2, "scanning", 0, 0, "Getting channel posts...")
         IN /\ nextId' = nextId + 1
            /\ Commit(p, T3, G1, members,
                      [o EXCEPT !.group = nextId, !.created = nextId,
                                !.idx = 0, !.acc = <<>>, !.pc = "posts"])

\* ------------------------------------------------------ entity resolution
\* parse_channel without the test that the entity is a broadcast channel
AfterResolveNoCheck(p, T, o) ==
    IF o.kind = "group"
    THEN LET T1 == Upd(T, "info", 0, 0, "Getting chat information...") IN
         IF IsChannelType(o.ent)
         THEN Commit(p, T1, groups, members, [o EXCEPT !.pc = "full"])
              /\ UNCHANGED nextId
         ELSE GroupCreateSeg(p, T1, o, TRUE)
    ELSE Commit(p, Upd(T, "info", 0, 0, "Getting channel information..."),
                groups, members, [o EXCEPT !.pc = "full"])
         /\ UNCHANGED nextId

\* after the entity is known: lines 451-462 (group), 730-736 (channel)
AfterResolve(p, T, o) ==
    IF o.kind = "group"
    THEN LET T1 == Upd(T, "info", 0, 0, "Getting chat information...") IN
         IF IsChannelType(o.ent)
         THEN Commit(p, T1, groups, members, [o EXCEPT !.pc = "full"])
              /\ UNCHANGED nextId
         ELSE GroupCreateSeg(p, T1, o, TRUE)
    ELSE IF ~(IsChannelType(o.ent) /\ IsBroadcast(o.ent))
         THEN Except(p, T, groups, members, o, "The provided link is not a channel")
              /\ UNCHANGED nextId
         ELSE Commit(p, Upd(T, "info", 0, 0, "Getting channel information..."),
                     groups, members, [o EXCEPT !.pc = "full"])
              /\ UNCHANGED nextId

\* await self.client.get_entity(...) (direct lookup) returns or raises
EntityReturns(p) ==
    /\ ops[p].pc = "entity"
    /\ \E out \in {"found", "ValueError", "error"} :
         LET o == ops[p]
             T == Ctx(p)
         IN CASE out = "found" ->
                   /\ o.link.name \in Entities
                   /\ AfterResolve(p, T, [o EXCEPT !.ent = o.link.name])
              [] out = "ValueError" ->
                   /\ Commit(p, T, groups, members, [o EXCEPT !.pc = "dialogs"])
                   /\ UNCHANGED nextId
              [] out = "error" ->
                   /\ Except(p, T, groups, members, o, "Error accessing chat")
                   /\ UNCHANGED nextId
    /\ UNCHANGED <<timers, started, world, aside>>

\* the peers a dialog entry of the handler's kind can match on: user_id,
\* channel_id or chat_id in parse_group, channel_id only in parse_channel
PeerMatches(o, d) ==
    /\ o.link.form = "num"
    /\ o.link.name = d
    /\ o.kind = "channel" => IsChannelType(d)

\* await self.client(GetDialogsRequest(...)) returns or raises; the loop
DialogsReturns(p) ==
    /\ ops[p].pc = "dialogs"
    /\ \E out \in {"error", "empty", "all"} :
         LET ds == IF out = "all" THEN Entities ELSE {}
             \* the listed dialogs whose entity the link denotes
             o == [ops[p] EXCEPT !.listed = {d \in ds : d = ops[p].link.name}]
             T == Ctx(p)
         IN IF out = "error"
            THEN Except(p, T, groups, members, o, "Error accessing chat")
            ELSE IF ds # {} /\ Cancelled(T.f)
            THEN Except(p, T, groups, members, o, "Error accessing chat: cancelled")
            ELSE IF \E d \in ds : PeerMatches(o, d)
            THEN Commit(p, T, groups, members, [o EXCEPT !.pc = "peer"])
            ELSE Except(p, T, groups, members, [o EXCEPT !.nomatch = TRUE],
                        "Error accessing chat: could not find")
    /\ UNCHANGED <<nextId, timers, started, world, aside>>

\* await self.client.get_entity(peer) returns or raises
PeerReturns(p) ==
    /\ ops[p].pc = "peer"
    /\ \E ok \in BOOLEAN :
         \* the listing is dead once the peer's entity has been asked for
         LET o == [ops[p] EXCEPT !.listed = {}]
             T == Ctx(p)
         IN IF ok THEN AfterResolve(p, T, [o EXCEPT !.ent = o.link.name])
            ELSE Except(p, T, groups, members, o, "Error accessing chat")
                 /\ UNCHANGED nextId
    /\ UNCHANGED <<timers, started, world, aside>>

\* await self.client(GetFullChannelRequest(...)) before the Group is created
FullReturns(p) ==
    /\ ops[p].pc = "full"
    /\ \E ok \in BOOLEAN :
         LET o == ops[p]
             T == Ctx(p)
         IN IF o.kind = "group" THEN GroupCreateSeg(p, T, o, ok)
            ELSE IF ok THEN ChannelCreateSeg(p, T, o)
            ELSE Except(p, T, groups, members, o, "GetFullChannelRequest failed")
                 /\ UNCHANGED nextId
    /\ UNCHANGED <<timers, started, world, aside>>

\* ------------------------------------------------- _get_group_members
\* the admin iteration (lines 244-263), taken as one await
AdminsReturns(p) ==
    /\ ops[p].pc = "admins"
    /\ \E out \in {"none", "some", "error"} :
         LET o == ops[p]
             T == Ctx(p)
         IN IF Cancelled(T.f) /\ out # "none"
            THEN GroupScanExcept(p, T, groups, members, Saw(o), CancelMsg)
            ELSE IF out = "error"
            THEN GroupScanExcept(p, T, groups, members,
                                 IF Cancelled(T.f) THEN Saw(o) ELSE ScanErr(o),
                                 "Error getting group members")
            ELSE LET T1 == Upd(T, "admins", 0, 0, "Found admins") IN
                 IF Cancelled(T1.f)
                 THEN GroupScanExcept(p, T1, groups, members, Saw(o), CancelMsg)
                 ELSE Commit(p, T1, groups, members, [o EXCEPT !.pc = "mfull"])
    /\ UNCHANGED <<nextId, timers, started, world, aside>>

\* GetFullChannelRequest inside the scanner (lines 265-283): the reported
\* participants_count becomes the total of the "members" phase
MFullReturns(p) ==
    /\ ops[p].pc = "mfull"
    /\ \E ok \in BOOLEAN, count \in 0..Deployment(world).members :
         LET o == ops[p]
             T == Ctx(p)
         IN IF ~ok
            THEN /\ count = 0
                 /\ GroupScanExcept(p, T, groups, members,
                                    IF Cancelled(T.f) THEN o ELSE ScanErr(o),
                                    "Error getting group members")
            ELSE LET T1 == Upd(T, "members", 0, count, "Found total members") IN
                 IF Cancelled(T1.f)
                 THEN GroupScanExcept(p, T1, groups, members, Saw(o), CancelMsg)
                 ELSE Commit(p, T1, groups, members,
                             [o EXCEPT !.pc = "next", !.total = count,
                                       !.scanned = TRUE])
    /\ UNCHANGED <<nextId, timers, started, world, aside>>

\* one round of the participant loop: await participant_iter.__anext__()
\* returns a member, ends the iteration, or raises (lines 279-315)
NextReturns(p) ==
    /\ ops[p].pc = "next"
    /\ \E out \in {"member", "stop", "Exception", "ValueError"} :
         LET o == ops[p]
             T == Ctx(p)
         IN CASE out = "member" ->
                   /\ o.idx < Deployment(world).members
                   /\ LET n == o.idx + 1
                          T1 == Upd(T, "members", n, o.total, "Processing member n/total")
                          \* the n-th participant is account n
                          o1 == [o EXCEPT !.idx = n, !.acc = Append(o.acc, n),
                                          !.seen = @ \cup {n},
                                          !.cancelMid = IF @ = "pending" THEN "yes" ELSE @]
                      IN IF Cancelled(T1.f)
                         THEN GroupScanExcept(p, T1, groups, members, Saw(o1), CancelMsg)
                         ELSE Commit(p, T1, groups, members, o1)
              [] out = "stop" ->
                   /\ AfterScan(p, T, [o EXCEPT !.cancelMid = IF @ = "pending" THEN "no" ELSE @],
                                o.acc)
              [] out = "Exception" ->
                   /\ o.errs < MaxFetchErrors \/ Deployment(world).outage
                   /\ LET T1 == Upd(T, "error", 0, 0, "Error processing member")
                          \* errs counts the failures up to MaxFetchErrors;
                          \* refetch is the parity of the ones after them
                          o1 == IF o.errs < MaxFetchErrors
                                THEN [o EXCEPT !.errs = @ + 1]
                                ELSE [o EXCEPT !.refetch = 1 - @]
                      IN IF Cancelled(T1.f)
                         THEN GroupScanExcept(p, T1, groups, members, Saw(o1), CancelMsg)
                         ELSE Commit(p, T1, groups, members, o1)
              [] out = "ValueError" ->
                   /\ GroupScanExcept(p, T, groups, members,
                                      IF Cancelled(T.f) THEN o ELSE ScanErr(o),
                                      "Error getting group members")
    /\ UNCHANGED <<nextId, timers, started, world, aside>>

\* ------------------------------------------------- _get_comment_users
\* one round of  async for message in iter_messages(limit=limit)
\* (lines 334-372); sender 0 is a message without a sender
MsgsReturns(p) ==
    /\ ops[p].pc = "msgs"
    /\ \E out \in {"message", "stop", "error"}, sender \in {0} \cup Deployment(world).authors :
         LET o == ops[p]
             T == Ctx(p)
         IN CASE out = "message" ->
                   /\ o.idx < Deployment(world).members
                   /\ IF Cancelled(T.f)
                      THEN GroupScanExcept(p, T, groups, members, Saw(o), CancelMsg)
                      ELSE Commit(p, Upd(T, "comments", o.idx + 1, o.limit, "Analyzing message"),
                                  groups, members,
                                  [o EXCEPT !.idx = @ + 1, !.scanned = TRUE,
                                            !.acc = IF sender = 0 THEN @
                                                    ELSE AddUnique(@, sender),
                                            !.seen = IF sender = 0 THEN @
                                                     ELSE @ \cup {sender},
                                            !.cancelMid = IF @ = "pending" THEN "yes" ELSE @])
              [] out = "stop" ->
                   /\ sender = 0
                   /\ AfterScan(p, Upd(T, "comments", o.limit, o.limit, "Found unique users"),
                                [o EXCEPT !.cancelMid = IF @ = "pending" THEN "no" ELSE @],
                                o.acc)
              [] out = "error" ->
                   /\ sender = 0
                   /\ AfterScan(p, Upd(T, "error", 0, 0, "Error scanning comments"),
                                IF Cancelled(T.f) THEN o ELSE ScanErr(o), <<>>)
    /\ UNCHANGED <<nextId, timers, started, world, aside>>

\* the user-chat branch: await self.client.get_me() (lines 500-519)
MeReturns(p) ==
    /\ ops[p].pc = "me"
    /\ \E out \in {"me", "self", "error"} :
         LET o == ops[p]
             T == Ctx(p)
         IN CASE out = "me" -> AfterScan(p, T, [o EXCEPT !.seen = @ \cup {MeId}],
                                         Append(o.acc, MeId))
              [] out = "self" -> AfterScan(p, T, o, o.acc)
              [] out = "error" ->
                   GroupScanExcept(p, T, groups, members,
                                   IF Cancelled(T.f) THEN o ELSE ScanErr(o),
                                   "get_me failed")
    /\ UNCHANGED <<nextId, timers, started, world, aside>>

\* ------------------------------------------------------- channel scanning
\* await self._get_channel_posts(...) (lines 770-784)
PostsReturns(p) ==
    /\ ops[p].pc = "posts"
    /\ \E ok \in BOOLEAN, n \in 0..Deployment(world).posts :
         LET o == ops[p]
             T == Ctx(p)
         IN IF ~ok
            THEN /\ n = 0
                 /\ ChannelScanExcept(p, T, groups, members,
                                      IF Cancelled(T.f) THEN o ELSE ScanErr(o),
                                      "Error getting channel posts")
            ELSE /\ n <= o.limit
                 /\ LET T1 == Upd(T, "scanning", 0, 0, "Found posts") IN
                    IF n = 0 THEN ChannelSave(p, T1, o, <<>>)
                    ELSE IF Cancelled(T1.f)
                    THEN ChannelScanExcept(p, T1, groups, members, Saw(o), CancelMsg)
                    ELSE Commit(p, Upd(T1, "processing", 1, n, "Processing post 1/n"),
                                groups, members,
                                [o EXCEPT !.pc = "comments", !.posts = n,
                                          !.idx = 1, !.scanned = TRUE])
    /\ UNCHANGED <<nextId, timers, started, world, aside>>

\* What the run remembers of the posts: the commenters of the posts whose
\* retrieval succeeded, and whether a retrieval failed.
Noted(o, ok, cs) ==
    [o EXCEPT !.okc = IF ok THEN @ \cup cs ELSE @,
              !.skipped = IF ok THEN @ ELSE TRUE]

\* the round in which a failing retrieval is raised instead of skipped
CommentsReturnsAbort(p) ==
    /\ ops[p].pc = "comments"
    /\ \E ok \in BOOLEAN, cs \in SUBSET Deployment(world).authors :
         LET o == Noted(ops[p], ok, cs)
             T == Ctx(p)
             acc == IF ok THEN AddAll(o.acc, cs) ELSE o.acc
         IN /\ ~ok => cs = {}
            /\ IF ~ok
               THEN ChannelScanExcept(p, T, groups, members, o,
                                      "Error getting post commenters")
               ELSE IF o.idx = o.posts THEN ChannelSave(p, T, o, acc)
               ELSE IF Cancelled(T.f)
               THEN ChannelScanExcept(p, T, groups, members, Saw(o), CancelMsg)
               ELSE Commit(p, Upd(T, "processing", o.idx + 1, o.posts, "Processing post i/n"),
                           groups, members,
                           [o EXCEPT !.idx = @ + 1, !.acc = acc])
    /\ UNCHANGED <<nextId, timers, started, world, aside>>

\* await self._get_commenters_info(...) for post idx returns its commenters
\* or raises (the post is skipped), then the next round (lines 776-790)
CommentsReturns(p) ==
    /\ ops[p].pc = "comments"
    /\ \E ok \in BOOLEAN, cs \in SUBSET Deployment(world).authors :
         LET o == Noted(ops[p], ok, cs)
             T == Ctx(p)
             acc == IF ok THEN AddAll(o.acc, cs) ELSE o.acc
         IN /\ ~ok => cs = {}
            /\ IF o.idx = o.posts THEN ChannelSave(p, T, o, acc)
               ELSE IF Cancelled(T.f)
               THEN ChannelScanExcept(p, T, groups, members, Saw(o), CancelMsg)
               ELSE Commit(p, Upd(T, "processing", o.idx + 1, o.posts, "Processing post i/n"),
                           groups, members,
                           [o EXCEPT !.idx = @ + 1, !.acc = acc])
    /\ UNCHANGED <<nextId, timers, started, world, aside>>

\* ---------------------------------------------------------- the way out
\* await self._disconnect() returns
DisconnectReturns(p) ==
    /\ ops[p].pc = "disconnect"
    /\ LET o == [ops[p] EXCEPT !.client = "closed"]
       IN ops' = [ops EXCEPT ![p] = IF o.kind = "group"
                                    THEN [Finish(o) EXCEPT !.wrote = o.wrote,
                                                          !.last = o.last]
                                    ELSE [o EXCEPT !.pc = "sleep"]]
    /\ UNCHANGED <<file, groups, members, nextId, timers, started, world, aside>>

\* parse_channel: await asyncio.sleep(1) returns, then _reset_progress()
SleepReturns(p) ==
    /\ ops[p].pc = "sleep"
    /\ ResetDefers(file) => timers < MaxTimers
    /\ timers' = IF ResetDefers(file) THEN timers + 1 ELSE timers
    /\ file' = _reset_progress(file)
    /\ ops' = [ops EXCEPT ![p] = [Finish(ops[p]) EXCEPT !.wrote = ops[p].wrote,
                                                       !.last = ops[p].last]]
    /\ UNCHANGED <<groups, members, nextId, started, world, aside>>

Step(p) ==
    \/ ParseGroupStart(p)
    \/ ParseChannelStart(p)
    \/ ParseChannelReject(p)
    \/ ConnectReturns(p)
    \/ EntityReturns(p)
    \/ DialogsReturns(p)
    \/ PeerReturns(p)
    \/ FullReturns(p)
    \/ AdminsReturns(p)
    \/ MFullReturns(p)
    \/ NextReturns(p)
    \/ MsgsReturns(p)
    \/ MeReturns(p)
    \/ PostsReturns(p)
    \/ CommentsReturns(p)
    \/ DisconnectReturns(p)
    \/ SleepReturns(p)

Next == (\E p \in Slots : Step(p)) \/ Cancel \/ TimerFires

Spec == Init /\ [][Next]_vars

SpecScan == Fresh("Scanning") /\ [][Next]_vars

SpecOverlap == Fresh("Overlapping") /\ [][Next]_vars

\* The event loop resumes a handler whose awaited call has returned or
\* raised: a handler that can take a step takes one.
SpecOutage ==
    /\ Fresh("Outage")
    /\ [][Next]_vars
    /\ \A p \in Slots : WF_vars(Step(p))

\* -------------------------------------------------- the token pool alone
Idle ==
    /\ world = "OneAtATime"
    /\ file = <<>>
    /\ groups = {}
    /\ members = <<>>
    /\ nextId = 1
    /\ timers = 0
    /\ started = 0
    /\ ops = [p \in Slots |-> IdleOp]

\* a caller asks for the next token
GetNextBotToken ==
    /\ pool.calls < MaxCalls
    /\ pool' = get_next_bot_token(pool)
    /\ pool' # pool
    /\ UNCHANGED <<main, conn, legacy>>

\* the operator changes TELEGRAM_BOT_TOKENS while the process runs
Reconfigure ==
    /\ \E env \in {<<>>, <<"b">>} :
          /\ env # pool.env
          /\ pool' = [pool EXCEPT !.env = env]
    /\ UNCHANGED <<main, conn, legacy>>

InitTokens ==
    /\ Idle
    /\ conn = NewConn(<<>>, <<>>)
    /\ legacy = NewLegacy
    /\ \E env \in Texts(MaxEnvLen) : pool = NewPool(env)
NextTokens == GetNextBotToken \/ Reconfigure
SpecTokens == InitTokens /\ [][NextTokens]_vars

\* ------------------------------------------- one service object alone
\* await self._connect() on an object that has not connected yet
Connect ==
    /\ conn.pc = "idle"
    /\ conn.connects = 0
    /\ \E ok \in BOOLEAN : conn' = _connect(conn, ok)
    /\ UNCHANGED <<main, pool, legacy>>

\* await self._disconnect()
Disconnect ==
    /\ conn.pc \in {"idle", "done"}
    /\ conn.disconnects < MaxDisconnects
    /\ conn' = _disconnect(conn)
    /\ UNCHANGED <<main, pool, legacy>>

InitConnect ==
    /\ Idle
    /\ pool = NewPool(<<>>)
    /\ legacy = NewLegacy
    /\ \E ss \in SessionStrings, bt \in BotTokens : conn = NewConn(ss, bt)
NextConnect == Connect \/ Disconnect
SpecConnect == InitConnect /\ [][NextConnect]_vars

\* ------------------------------------------------------------ list_dialogs
\* the session_string column of the user's active TelegramSession row: the
\* query keeps every row whose column is not NULL
StoredSessions == {<<<<"s">>>>, <<<<>>>>}

\* finally: if self.client: await self._disconnect()
ListFinally(c, res) ==
    IF c.client # <<>> THEN [c EXCEPT !.pc = "disconnect", !.result = res]
    ELSE [c EXCEPT !.pc = "done", !.result = res]

\* GET /dialogs/ -> list_dialogs up to await self._connect() (lines 860-876)
ListDialogsStart ==
    /\ conn.pc = "idle"
    /\ conn.connects = 0
    /\ started < Deployment(world).parses
    /\ started' = started + 1
    /\ \E u \in Deployment(world).users, ss \in StoredSessions :
         conn' = IF u \notin WithSession THEN ListFinally(conn, "empty")
                 ELSE [conn EXCEPT !.session_string = ss, !.bot_token = <<>>,
                                   !.pc = "connect"]
    /\ UNCHANGED <<file, groups, members, nextId, timers, world, ops, pool, legacy>>

\* await self._connect() returns or raises
ListConnectReturns ==
    /\ conn.pc = "connect"
    /\ \E ok \in BOOLEAN :
         LET c == _connect(conn, ok)
         IN conn' = IF c.raised = "" THEN [c EXCEPT !.pc = "dialogs"]
                    ELSE ListFinally(c, "error")
    /\ UNCHANGED <<main, pool, legacy>>

\* await self.client(GetDialogsRequest(...)) returns or raises; the loop up
\* to its GetFullChannelRequest, if it needs one
ListDialogsReturns ==
    /\ conn.pc = "dialogs"
    /\ \E out \in {"listed", "count", "error"} :
         conn' = CASE out = "listed" -> ListFinally(conn, "returned")
                   [] out = "count" -> [conn EXCEPT !.pc = "full"]
                   [] out = "error" -> ListFinally(conn, "error")
    /\ UNCHANGED <<main, pool, legacy>>

\* await self.client(GetFullChannelRequest(...)) returns or raises: a
\* failure is replaced by member_count = 0 (lines 924-931)
ListFullReturns ==
    /\ conn.pc = "full"
    /\ conn' = ListFinally(conn, "returned")
    /\ UNCHANGED <<main, pool, legacy>>

\* await self._disconnect() in list_dialogs' finally
ListDisconnectReturns ==
    /\ conn.pc = "disconnect"
    /\ conn' = [_disconnect(conn) EXCEPT !.pc = "done"]
    /\ UNCHANGED <<main, pool, legacy>>

ListDialogs ==
    \/ ListDialogsStart
    \/ ListConnectReturns
    \/ ListDialogsReturns
    \/ ListFullReturns
    \/ ListDisconnectReturns


NextExits == Next \/ ListDialogs \/ Disconnect
SpecExits == Fresh("Exits") /\ [][NextExits]_vars


SpecLinks == Fresh("Linking") /\ [][Next]_vars

\* ------------------------------- the bot-token service (simple_run.py)
\* Its get_bot_tokens and get_next_bot_token are, line for line, the ones
\* of the session service, on class attributes of its own.
LegacyEnvs == {<<>>, <<"a">>, <<"a", ",", "b">>}
\* FloodWaitError.seconds
FloodSeconds == {1, 2}

\* after the for loop (lines 413-423)
LegacyRaise(o) ==
    [o EXCEPT !.pc = "done",
              !.result = CASE o.last_error.kind = "flood" ->
                                [status |-> 429, seconds |-> o.last_error.seconds]
                           [] o.last_error.kind = "banned" ->
                                [status |-> 403, seconds |-> 0]
                           [] OTHER -> [status |-> 500, seconds |-> 0]]

\* the head of one loop round: await self._connect()
LegacyRound(o) ==
    IF o.attempts < o.n
    THEN [o EXCEPT !.pc = "attempt", !.attempts = @ + 1,
                   !.used = Append(@, o.bot_token)]
    ELSE LegacyRaise(o)

\* POST /api/v1/telegram/parse-group/: TelegramParserService() takes the
\* next token, parse_group reads the list and starts its first round
LegacyStart(p) ==
    /\ legacy.ops[p].pc \in {"idle", "done"}
    /\ legacy.begun < MaxLegacyParses
    /\ pool' = get_next_bot_token(pool)
    /\ LET o == IF pool'.last = "raised"
                THEN [IdleLegacy EXCEPT !.pc = "done",
                                        !.result = [status |-> 500, seconds |-> 0]]
                ELSE LegacyRound([IdleLegacy EXCEPT
                                     !.bot_token = pool'.ret,
                                     !.n = Len(pool'.tokens[1])])
       IN legacy' = [begun |-> legacy.begun + 1,
                     ops |-> [legacy.ops EXCEPT ![p] = o]]
    /\ UNCHANGED <<main, conn>>

\* one round ends: it returns, or an await in it raises (lines 289-411);
\* the except blocks, finally, and the head of the next round
LegacyAttemptReturns(p) ==
    /\ legacy.ops[p].pc = "attempt"
    /\ \E out \in {"ok", "flood", "banned", "http", "other"}, secs \in FloodSeconds :
         LET o == legacy.ops[p]
             rotate == out \in {"flood", "banned"}
             pl == IF rotate THEN get_next_bot_token(pool) ELSE pool
             o1 == CASE out = "ok" ->
                          [o EXCEPT !.pc = "done",
                                    !.result = [status |-> 200, seconds |-> 0]]
                     [] out = "http" ->
                          [o EXCEPT !.pc = "done",
                                    !.result = [status |-> 404, seconds |-> 0]]
                     [] out = "other" ->
                          LegacyRaise([o EXCEPT !.last_error =
                                          [kind |-> "other", seconds |-> 0]])
                     [] OTHER ->
                          LegacyRound([o EXCEPT
                              !.last_error = [kind |-> out,
                                              seconds |-> IF out = "flood"
                                                          THEN secs ELSE 0],
                              !.bot_token = pl.ret])
         IN /\ out # "flood" => secs = 1
            /\ pool' = pl
            /\ legacy' = [legacy EXCEPT !.ops[p] = o1]
    /\ UNCHANGED <<main, conn>>

InitLegacy ==
    /\ Idle
    /\ conn = NewConn(<<>>, <<>>)
    /\ legacy = NewLegacy
    /\ \E env \in LegacyEnvs : pool = NewPool(env)
NextLegacy == \E p \in Slots : LegacyStart(p) \/ LegacyAttemptReturns(p)
SpecLegacy == InitLegacy /\ [][NextLegacy]_vars

\* ======================================================== the properties
Op(p) == ops[p]
HasGroup(id) == \E g \in groups : g.id = id
HasMembers(id) == \E i \in 1..Len(members) : members[i].group_id = id
FinalPhases == {"error", "cancelled"}

(* C1: a parse that created its Group row and was cancelled mid-scan      *)
(* (cancel_parsing called after N of M items, 0 < N < M) leaves, once it   *)
(* has finished, no Group row and no Member row of its own in the store.   *)
CancelLeavesNoRows ==
    \A p \in Slots :
        (Op(p).pc = "done" /\ Op(p).cancelMid = "yes" /\ Op(p).created # 0)
            => ~HasGroup(Op(p).created) /\ ~HasMembers(Op(p).created)

(* C2: in every reachable state the store holds at most one Group row per  *)
(* (user id, network group id) pair.                                       *)
OneGroupPerPair ==
    \A g1, g2 \in groups :
        (g1.user_id = g2.user_id /\ g1.group_id = g2.group_id) => g1 = g2

(* C3: a parse by a user without an active session fails at once: no       *)
(* connection is attempted, no Group row is created, and the operation     *)
(* writes no phase beyond "initialization" except a final one.             *)
NoSessionFailsAtOnce ==
    \A p \in Slots :
        (Op(p).kind \in {"group", "channel"} /\ Op(p).result # "rejected"
           /\ Op(p).user \notin WithSession)
            => /\ Op(p).result = "error"
               /\ Op(p).client = "none"
               /\ Op(p).created = 0
               /\ Op(p).wrote \subseteq {"initialization"} \cup FinalPhases

NoSessionReached ==
    \E p \in Slots :
        /\ Op(p).pc = "done" /\ Op(p).kind = "group"
        /\ Op(p).user \notin WithSession
        /\ Op(p).exc = "No active Telegram session found"
        /\ groups = {}

(* C4: in every reachable tracker state phase_progress lies in [0, 100],   *)
(* and it is 0 whenever the total passed to the running parse's most       *)
(* recent _update_progress call was 0.                                     *)
PhaseProgressInRange ==
    /\ file # <<>> => file[1].phase_progress \in 0..100
    /\ \A p \in Slots :
          (Running(p) /\ Op(p).wrote # {} /\ Op(p).lastTotal = 0 /\ file # <<>>)
              => file[1].phase_progress = 0

(* C5: after a scan completed successfully, once every pending delayed     *)
(* reset has run and nothing was started or cancelled since, the tracker   *)
(* is cleared: get_progress() returns None.                                *)
TrackerClearedAfterCompletion ==
    \A p \in Slots :
        (Op(p).pc = "done" /\ Op(p).result = "returned"
           /\ Op(p).last = "completed" /\ timers = 0 /\ ~Cancelled(file))
            => file = <<>>

(* C6: when a parse observed the cancellation flag during its scan, the    *)
(* last phase that operation wrote to the tracker is "cancelled".          *)
CancelledIsLastPhase ==
    \A p \in Slots :
        (Op(p).pc = "done" /\ Op(p).sawCancel) => Op(p).last = "cancelled"

(* C7: the step in which a parse fails leaves in the tracker a final phase *)
(* ("error" or "cancelled"), written by that operation, with a non-empty   *)
(* message describing the failure; and from then on, until another parse   *)
(* starts, a poll never sees a working phase.                              *)
ErrorWritesFinalStatus ==
    /\ [](\A p \in Slots :
             Op(p).result = "error"
                 => file = <<>> \/ file[1].current_phase \in FinalPhases)
    /\ [][\A p \in Slots :
             (Op(p).result # "error" /\ Op(p).result' = "error")
                 => /\ file' # <<>>
                    /\ file'[1].current_phase \in FinalPhases
                    /\ file'[1].current_phase = Op(p).last'
                    /\ file'[1].status_message \in
                          {"Error parsing chat", "Error parsing channel",
                           CancelMsg}]_vars

ErrorStatusReached ==
    \E p \in Slots :
        /\ Op(p).result = "error" /\ Op(p).created # 0
        /\ Op(p).exc = "Error getting group members"
        /\ file # <<>> /\ file[1].current_phase = "error"
        /\ file[1].status_message = "Error parsing chat"

(* C8: a scan that failed after its Group row was created, with an error   *)
(* that is not a cancellation, ends as a failure to the caller and leaves  *)
(* the Group row in the store.                                             *)
ScanErrorSurfacedGroupKept ==
    \A p \in Slots :
        (Op(p).pc = "done" /\ Op(p).scanErr)
            => Op(p).result = "error" /\ HasGroup(Op(p).created)

(* C9: when the link resolves to no entity, or parse_channel resolves to   *)
(* an entity that is not a broadcast channel, create_group is never        *)
(* reached and the parse ends with an error.                               *)
UnresolvedCreatesNothing ==
    \A p \in Slots :
        (Op(p).nomatch
           \/ (Op(p).kind = "channel" /\ Op(p).ent \in Entities
                 /\ ~IsBroadcast(Op(p).ent)))
            => /\ Op(p).created = 0
               /\ Op(p).result = "error"

UnresolvedReached ==
    \E p \in Slots :
        /\ Op(p).pc = "done" /\ Op(p).nomatch
        /\ Op(p).exc = "Error accessing chat: could not find"
        /\ Op(p).client = "closed"

(* C10: a channel parse request with post_limit outside 1..100 is rejected *)
(* before any connection is made, any Group row is created or the tracker  *)
(* is touched; one with post_limit in 1..100 is accepted.                  *)
PostLimitValidated ==
    \A p \in Slots :
        Op(p).kind = "channel"
            => IF Op(p).limit \in 1..100
               THEN Op(p).result # "rejected"
               ELSE /\ Op(p).result = "rejected"
                    /\ Op(p).client = "none"
                    /\ Op(p).created = 0
                    /\ Op(p).wrote = {}

BadPostLimitRejected ==
    \E p \in Slots :
        /\ Op(p).kind = "channel" /\ Op(p).limit = 150
        /\ Op(p).result = "rejected"

Rows(id) == {members[i].user_id : i \in {j \in 1..Len(members) : members[j].group_id = id}}
RowCount(id) == Cardinality({j \in 1..Len(members) : members[j].group_id = id})

(* C11: in a channel scan that is not cancelled, posts whose comment       *)
(* retrieval fails are skipped: the scan returns without an exception, and *)
(* the Member rows of its Group are exactly the commenters of the posts    *)
(* whose retrieval succeeded.                                              *)
FailingPostsSkipped ==
    \A p \in Slots :
        (Op(p).kind = "channel" /\ Op(p).pc = "done" /\ Op(p).skipped
           /\ ~Op(p).sawCancel /\ Op(p).result # "returned_none")
            => /\ Op(p).result = "returned"
               /\ Op(p).exc = ""
               /\ HasGroup(Op(p).created)
               /\ Rows(Op(p).created) = Op(p).okc

FailingPostSkippedReached ==
    \E p \in Slots :
        /\ Op(p).kind = "channel" /\ Op(p).pc = "done" /\ Op(p).skipped
        /\ Op(p).result = "returned"
        /\ Op(p).okc = ManyAuthors
        /\ Rows(Op(p).created) = ManyAuthors

Yielded(p) == IF Op(p).kind = "channel" THEN Op(p).okc ELSE Op(p).seen

TokensRotate ==
    /\ pool.tokens # <<>> => pool.index \in 0..(Len(pool.tokens[1]) - 1)
    /\ pool.last = "returned"
          => /\ pool.tokens = <<pool.conf>>
             /\ pool.loads = 1
             /\ pool.ret = <<pool.conf[((pool.calls - 1) % Len(pool.conf)) + 1]>>
    /\ pool.tokens = <<>> => pool.calls = 0 /\ pool.ret = <<>>
    /\ pool.last = "raised" => pool.tokens = <<>>

TokensWrapReached ==
    /\ pool.last = "returned"
    /\ Len(pool.conf) = 2 /\ pool.conf[1] # pool.conf[2]
    /\ pool.calls > Len(pool.conf)
    /\ pool.env # <<"a", ",", "b">> /\ pool.conf = <<<<"a">>, <<"b">>>>
(* C14: _connect() picks the credential by priority.  With a session      *)
(* string set, the client is built on that session string and start() is   *)
(* given no bot token, whatever the bot token is; with no session string   *)
(* and a bot token set, the client is started with that bot token; with    *)
(* neither set, the call raises and no client is built.                    *)
ConnectByPriority ==
    conn.connects > 0
        => IF Truthy(conn.session_string)
           THEN /\ conn.client # <<>>
                /\ conn.client[1].session =
                      [kind |-> "StringSession", text |-> conn.session_string[1]]
                /\ conn.client[1].start_token = <<>>
                /\ conn.raised # "ValueError"
           ELSE IF Truthy(conn.bot_token)
           THEN /\ conn.client # <<>>
                /\ conn.client[1].start_token = conn.bot_token
                /\ conn.client[1].session.kind = "name"
                /\ conn.raised # "ValueError"
           ELSE /\ conn.client = <<>>
                /\ conn.link = "unopened"
                /\ conn.raised = "ValueError"

SessionPreferredReached ==
    /\ conn.connects > 0 /\ conn.link = "connected"
    /\ conn.session_string = <<<<"s">>>>
    /\ conn.bot_token = <<<<"1", ":">>>>
    /\ conn.client[1].start_token = <<>>
(* C15: a parse_group, parse_channel or list_dialogs call that has ended   *)
(* leaves no client connected: if it built a client, the client has been   *)
(* disconnected, and it ends without one only when it failed before        *)
(* connecting.  A _disconnect() call made when there is no client, or when *)
(* the client is not connected, leaves the client and its link as they     *)
(* were.                                                                   *)
ExitsDisconnect ==
    /\ [](\A p \in Slots :
             Op(p).pc = "done"
                 => /\ Op(p).client \in {"none", "closed"}
                    /\ Op(p).client = "none" => "connecting" \notin Op(p).wrote)
    /\ [](conn.pc = "done"
             => /\ conn.link # "connected"
                /\ conn.client # <<>> => conn.closes >= 1
                /\ conn.client = <<>> => conn.result \in {"none", "empty", "error"})
    /\ [][(conn.disconnects' > conn.disconnects
             /\ (conn.client = <<>> \/ conn.link # "connected"))
                => /\ conn.client' = conn.client
                   /\ conn.link' = conn.link
                   /\ conn.raised' = conn.raised]_vars

DisconnectedTwiceReached ==
    /\ conn.pc = "done" /\ conn.result = "error"
    /\ conn.link = "disconnected"
    /\ conn.disconnects = 2 /\ conn.closes = 2
NamesNormalize ==
    \A e \in Entities : \A t \in NameForms(e) : _extract_group_id(t) = Username(e)

(* C16: the link, @ and bare forms of an entity's username all normalize   *)
(* to that username, and a parse started from any identifier of an entity  *)
(* (those forms or its numeric id, signed or not) resolves to that entity  *)
(* and creates a Group carrying that entity's network id.                  *)
FormsResolveAlike ==
    /\ NamesNormalize
    /\ \A p \in Slots : \A e \in Entities :
          Op(p).link.text \in LinkForms(e)
              => /\ Op(p).ent \in {"", e}
                 /\ Op(p).created # 0
                       => \E g \in groups : /\ g.id = Op(p).created
                                            /\ g.group_id = EntityId(e)

LinkWithPathResolved ==
    \E p \in Slots :
        /\ Op(p).link.text = Https \o TMe \o <<"b", "/", "1", "?", "x">>
        /\ Op(p).created # 0
        /\ \E g \in groups : g.id = Op(p).created /\ g.group_id = 2
(* C17: when the direct lookup failed and the dialogs that were listed     *)
(* hold an entity whose username or id is the identifier, the parse does   *)
(* not fail with not-found.                                                *)
FallbackFindsListed ==
    \A p \in Slots : Op(p).listed # {} => ~Op(p).nomatch
(* C18: within one parse of the bot-token service the connection attempts *)
(* never outnumber the configured tokens and no token is used for two      *)
(* attempts; a parse whose last attempt was rate-limited ends with the     *)
(* rate-limit error carrying that attempt's wait; a parse that succeeded   *)
(* made no attempt after the successful one.                               *)
LegacyRetriesOncePerToken ==
    \A p \in Slots :
        LET o == legacy.ops[p] IN
        /\ o.attempts <= o.n
        /\ Len(o.used) = o.attempts
        /\ \A i, j \in 1..Len(o.used) : o.used[i] = o.used[j] => i = j
        /\ (o.pc = "done" /\ o.last_error.kind = "flood" /\ o.result.status # 200
               /\ o.result.status # 404)
              => o.result = [status |-> 429, seconds |-> o.last_error.seconds]
(* C19: in no reachable state are two parse operations both between their *)
(* progress reset and their termination.                                   *)
OneScrapeInFlight ==
    \A p, q \in Slots : (Running(p) /\ Running(q)) => p = q
\* handler p moved: something other than the cancel request's note changed
Moved(p) ==
    [ops[p] EXCEPT !.cancelMid = "no"] # [ops'[p] EXCEPT !.cancelMid = "no"]

(* C20: a running handler that comes back from a network call, or to the   *)
(* next round of a scanning loop, while the cancellation flag is set sees  *)
(* the flag before it does anything else: that step takes it to its way    *)
(* out, not to further work.                                               *)
ProbeAfterEveryAwait ==
    [][\A p \in Slots :
          (Op(p).pc \notin {"idle", "done", "disconnect", "sleep"}
             /\ Cancelled(file) /\ Moved(p))
              => ops'[p].pc \in {"disconnect", "sleep", "done"}]_vars
(* C21: once the tracker's phase is "cancelled" or "error", a later step   *)
(* of the running operation that leaves the tracker in place leaves that   *)
(* phase as it is.                                                         *)
TerminalPhasesStay ==
    [][(/\ file # <<>> /\ file[1].current_phase \in FinalPhases
        /\ started' = started
        /\ file' # <<>>
        /\ \E p \in Slots : Moved(p))
           => file'[1].current_phase = file[1].current_phase]_vars

TerminalPhases == {"completed", "cancelled", "error"}

(* C22: when _reset_progress() runs with the tracker in a terminal phase   *)
(* ("completed", "cancelled" or "error") it leaves the tracker readable    *)
(* and starts a timer that clears it later.                                *)
ResetDefersTerminal ==
    [][\A p \in Slots :
          (/\ Op(p).pc = "sleep" /\ ops'[p].pc = "done"
           /\ file # <<>> /\ file[1].current_phase \in TerminalPhases)
              => /\ file' = file
                 /\ timers' = timers + 1]_vars

PhaseRank(ph) ==
    CASE ph = "initialization" -> 1
      [] ph = "connecting" -> 2
      [] ph = "validation" -> 3
      [] ph = "info" -> 4
      [] ph = "database" -> 5
      [] ph = "scanning" -> 6
      [] ph \in {"admins", "members", "comments"} -> 7
      [] ph = "processing" -> 8
      [] ph = "saving" -> 9
      [] ph = "completed" -> 10
      [] OTHER -> 0

\* a parse that wrote neither "error" nor "cancelled" and raised nothing
Undisturbed(p) ==
    /\ Op(p).kind \in {"group", "channel"}
    /\ Op(p).result # "rejected"
    /\ Op(p).exc = ""
    /\ Op(p).wrote \cap {"error", "cancelled"} = {}

(* C24: a parse that meets no cancellation and no error writes its phases  *)
(* in the order initialization, connecting, validation, info, database,    *)
(* scanning, (admins, members, comments), processing, saving, completed:   *)
(* no phase is written after a later one, and the last phase written by a  *)
(* parse that has ended is "completed".                                    *)
PhasesInOrder ==
    \A p \in Slots :
        Undisturbed(p)
            => /\ \A i \in 1..Len(Op(p).trail) :
                     /\ PhaseRank(Op(p).trail[i]) > 0
                     /\ i > 1 => PhaseRank(Op(p).trail[i - 1])
                                    <= PhaseRank(Op(p).trail[i])
               /\ Op(p).pc = "done" => Op(p).last = "completed"

CompletedInOrderReached ==
    \E p \in Slots :
        /\ Undisturbed(p)
        /\ Op(p).pc = "disconnect"
        /\ Op(p).kind = "group"
        /\ {"scanning", "members", "processing", "saving", "completed"}
               \subseteq Op(p).wrote
        /\ Len(Op(p).trail) = 11

\* a step of the cancel request: no handler started or moved and no timer
\* fired
CancelStep ==
    /\ \A p \in Slots : ~Moved(p)
    /\ started' = started
    /\ timers' = timers
    /\ file' # file

\* a step of handler p that does not remove the tracker file
UpdatingStep(p) ==
    /\ Moved(p)
    /\ file # <<>>
    /\ file' # <<>>
    /\ \/ started' = started /\ Op(p).pc # "sleep"
       \/ ResetDefers(file)

(* C25: cancel_parsing() sets is_cancelled and replaces the phase and the  *)
(* message, and leaves total_members, current_members, current_group_id    *)
(* and every Group and Member row as they were.  A handler's progress      *)
(* updates never change is_cancelled, and change current_group_id only in  *)
(* the step that creates a Group: a flag that is set stays set for as long *)
(* as the file exists.                                                     *)
CancelOnlyMarks ==
    [][/\ CancelStep
          => /\ file' # <<>>
             /\ file'[1].is_cancelled
             /\ file'[1].total_members = OrDefault(file).total_members
             /\ file'[1].current_members = OrDefault(file).current_members
             /\ file'[1].phase_progress = OrDefault(file).phase_progress
             /\ file'[1].current_group_id = OrDefault(file).current_group_id
             /\ groups' = groups
             /\ members' = members
       /\ \A p \in Slots :
            UpdatingStep(p)
               => /\ file'[1].is_cancelled = file[1].is_cancelled
                  /\ nextId' = nextId
                       => file'[1].current_group_id = file[1].current_group_id]_vars

FlagOutlivesUpdateReached ==
    /\ Cancelled(file)
    /\ file[1].current_phase = "error"
    /\ file[1].current_group_id # 0
    /\ \E p \in Slots : Op(p).kind = "channel" /\ Op(p).last = "error"

(* C26: the step that starts a parse (the reset and the first updates)     *)
(* leaves a tracker whose is_cancelled is false, whatever the tracker held *)
(* before.                                                                 *)
StartsClean ==
    [][\A p \in Slots :
          (/\ started' # started
           /\ Moved(p)
           /\ ops'[p].result # "rejected")
              => ~Cancelled(file')]_vars

(* C27: while a parse is in flight and no other parse runs, the tracker    *)
(* file exists: nothing deletes it, a delayed-reset timer included.        *)
TrackerKeptInFlight ==
    \A p \in Slots :
        (Running(p) /\ \A q \in Slots \ {p} : ~Running(q)) => file # <<>>

(* C28: a Group row disappears only in a step of the operation that        *)
(* created it: no parse deletes a row created by another parse or one      *)
(* that existed before it started.                                         *)
RollbackOwnGroup ==
    [][\A g \in groups \ groups' :
          \E p \in Slots : Moved(p) /\ ops'[p].created = g.id]_vars

(* C29: once a cancel request has arrived while the participant loop of    *)
(* _get_group_members was running, the handler leaves the loop at its next *)
(* step with at most one more member collected, and no member of that scan *)
(* is ever stored.                                                         *)
CancelStopsMemberScan ==
    /\ \A p \in Slots :
          (/\ Op(p).kind = "group"
           /\ "members" \in Op(p).wrote
           /\ Op(p).cancelMid \in {"pending", "yes"})
              => /\ Rows(Op(p).created) = {}
                 /\ Op(p).pc = "next" => Op(p).cancelMid = "pending"

(* C30: the participant loop of _get_group_members ends: a handler that    *)
(* waits for the next participant is eventually out of the loop, also      *)
(* when fetches fail.                                                      *)
FetchLoopEnds ==
    \A p \in Slots : (Op(p).pc = "next") ~> (Op(p).pc # "next")
====
